---- MODULE Spec2Model ----
(***************************************************************************)
(* A model of bot.py: one run polls the feeds, filters and de-duplicates   *)
(* the entries, posts the new ones to the webhook and saves the ledger.    *)
(*                                                                         *)
(* Text is a sequence of one-character strings.  The alphabet of the model *)
(* holds letters, digits, the blank, the line break and the URL delimiters *)
(* ? & = # / _ ;                                                           *)
(* it holds no character that urlencode would quote and no percent escape. *)
(***************************************************************************)
EXTENDS Integers, Sequences, FiniteSets, TLC

\* ------------------------------------------------------------------ bounds

\* runs started in one behaviour
MaxRuns == 2
\* feed URLs in feeds.json
MaxFeeds == 2
\* entries one fetched feed yields
MaxEntries == 2
\* largest MAX_POSTS_PER_RUN tried (0..MaxCap)
MaxCap == 2
\* largest PRUNE_DAYS tried (0..MaxPruneDays)
MaxPruneDays == 1
\* query fields of a link given to normalize_url and stable_key
MaxParams == 2
\* patterns of an exclude list given to is_excluded
MaxWords == 2
\* seconds that pass during one run, where the clock runs
MaxTicks == 1

\* ------------------------------------------------------------------- text

UpperCase == <<"A", "B", "C", "D", "U", "T", "M", "F", "G", "L", "I">>
LowerCase == <<"a", "b", "c", "d", "u", "t", "m", "f", "g", "l", "i">>

\* str.lower() on one character
LowerChar(c) ==
  IF \E i \in 1..Len(UpperCase) : UpperCase[i] = c
  THEN LowerCase[CHOOSE i \in 1..Len(UpperCase) : UpperCase[i] = c]
  ELSE c

\* str.lower()
lower(s) == [i \in 1..Len(s) |-> LowerChar(s[i])]

\* str.strip(): leading and trailing whitespace removed
strip(s) ==
  LET idx == {i \in 1..Len(s) : s[i] \notin {" ", "\n"}}
  IN IF idx = {} THEN <<>>
     ELSE LET lo == CHOOSE i \in idx : \A j \in idx : i <= j
              hi == CHOOSE i \in idx : \A j \in idx : j <= i
          IN SubSeq(s, lo, hi)

\* str.startswith(p)
startswith(s, p) == Len(p) <= Len(s) /\ SubSeq(s, 1, Len(p)) = p

\* the operator `w in t` on str: w is a contiguous substring of t
contains(t, w) ==
  \E i \in 0..(Len(t) - Len(w)) : SubSeq(t, i + 1, i + Len(w)) = w

\* position of the first c in s, 0 when there is none
Find(s, c) ==
  IF \E i \in 1..Len(s) : s[i] = c
  THEN CHOOSE i \in 1..Len(s) : s[i] = c /\ \A j \in 1..(i - 1) : s[j] # c
  ELSE 0

\* str.split(c): the fields of s between the occurrences of c
RECURSIVE split(_, _)
split(s, c) ==
  LET p == Find(s, c)
  IN IF p = 0 THEN <<s>>
     ELSE <<SubSeq(s, 1, p - 1)>> \o split(SubSeq(s, p + 1, Len(s)), c)

\* sep.join(parts)
RECURSIVE join(_, _)
join(parts, sep) ==
  IF parts = <<>> THEN <<>>
  ELSE IF Len(parts) = 1 THEN parts[1]
  ELSE parts[1] \o sep \o join(Tail(parts), sep)

\* ------------------------------------------------------- the pure functions

\* urllib.parse.urlparse: line breaks are removed from the URL; then the URL
\* up to the query, the query, the fragment
urlparse(url) ==
  LET safe == SelectSeq(url, LAMBDA c : c # "\n")
      h    == Find(safe, "#")
      rest == IF h = 0 THEN safe ELSE SubSeq(safe, 1, h - 1)
      frag == IF h = 0 THEN <<>> ELSE SubSeq(safe, h + 1, Len(safe))
      q    == Find(rest, "?")
  IN [path     |-> IF q = 0 THEN rest ELSE SubSeq(rest, 1, q - 1),
      query    |-> IF q = 0 THEN <<>> ELSE SubSeq(rest, q + 1, Len(rest)),
      fragment |-> frag]

\* urllib.parse.parse_qsl(query, keep_blank_values=True): the (k, v) pairs of
\* the non-empty fields; a field without "=" has the blank value
parse_qsl(query) ==
  LET fields == SelectSeq(split(query, "&"), LAMBDA f : f # <<>>)
      pair(f) == LET e == Find(f, "=")
                 IN IF e = 0 THEN <<f, <<>>>>
                    ELSE <<SubSeq(f, 1, e - 1), SubSeq(f, e + 1, Len(f))>>
  IN [i \in 1..Len(fields) |-> pair(fields[i])]

\* urllib.parse.urlencode: k=v fields joined by "&"
urlencode(q) ==
  join([i \in 1..Len(q) |-> q[i][1] \o <<"=">> \o q[i][2]], <<"&">>)

\* urllib.parse.urlunparse: an empty query or fragment leaves no delimiter
urlunparse(path, query, fragment) ==
  path \o (IF query = <<>> THEN <<>> ELSE <<"?">> \o query)
       \o (IF fragment = <<>> THEN <<>> ELSE <<"#">> \o fragment)

utm_    == <<"u", "t", "m", "_">>
fbclid  == <<"f", "b", "c", "l", "i", "d">>
gclid   == <<"g", "c", "l", "i", "d">>

IsTrackingCaseSensitive(k) ==
  startswith(k, utm_) \/ k \in {fbclid, gclid}

\* the filter of normalize_url: the parameter is a tracking parameter
IsTracking(k) ==
  startswith(lower(k), utm_) \/ lower(k) \in {fbclid, gclid}

normalize_url(url) ==
  LET u == urlparse(url)
      q == SelectSeq(parse_qsl(u.query), LAMBDA kv : ~IsTracking(kv[1]))
      new_query == urlencode(q)
  IN urlunparse(u.path, new_query, u.fragment)

\* hashlib.sha256(base).hexdigest(): the digest taken as injective on base
sha256(base) == <<"sha256", base>>

stable_key_untrimmed(title, url) ==
  LET base == strip(normalize_url(url)) \o <<"\n">> \o title
  IN sha256(base)

stable_key(title, url) ==
  LET base == strip(normalize_url(url)) \o <<"\n">> \o strip(title)
  IN sha256(base)

is_excluded_strict(title, exclude_words) ==
  LET t == strip(title)
  IN IF t = <<>> THEN TRUE
     ELSE \E i \in 1..Len(exclude_words) :
            LET w == exclude_words[i]
            IN w # <<>> /\ contains(t, w)

is_excluded(title, exclude_words) ==
  LET t  == strip(title)
      tl == lower(t)
  IN IF t = <<>> THEN TRUE
     ELSE \E i \in 1..Len(exclude_words) :
            LET w == exclude_words[i]
            IN /\ w # <<>>
               /\ (contains(t, w) \/ contains(tl, lower(w)))

\* --------------------------------------------------------- the JSON ledger

\* a JSON value of posted.json: an integer, or a value that is not one
JInt(n) == <<"int", n>>
JText   == <<"str", 0>>

\* isinstance(v, int)
isinstance_int(v) == v[1] = "int"

EmptyMap == [k \in {} |-> JText]

\* state[key] = ts
SetItem(st, key, v) ==
  [k \in (DOMAIN st) \cup {key} |-> IF k = key THEN v ELSE st[k]]

\* the dict without the keys of gone
Without(st, gone) == [k \in (DOMAIN st) \ gone |-> st[k]]

prune_state_inclusive(st, now_ts, days) ==
  LET cutoff   == now_ts - days * 24 * 60 * 60
      old_keys == {k \in DOMAIN st : isinstance_int(st[k]) /\ st[k][2] <= cutoff}
  IN Without(st, old_keys)

prune_state_noop(st, now_ts, days) == st

prune_state(st, now_ts, days) ==
  LET cutoff   == now_ts - days * 24 * 60 * 60
      old_keys == {k \in DOMAIN st : isinstance_int(st[k]) /\ st[k][2] < cutoff}
  IN Without(st, old_keys)

\* The file at STATE_PATH: absent, a complete JSON document, or what an
\* interrupted write leaves: the empty file of open(path, "w"), or a prefix
\* of the document.
FileAbsent    == [kind |-> "absent",  map |-> EmptyMap]
FileJson(m)   == [kind |-> "json",    map |-> m]
FileEmpty     == [kind |-> "empty",   map |-> EmptyMap]
FilePartial   == [kind |-> "partial", map |-> EmptyMap]

load_json_fresh(f) == [ok |-> TRUE, value |-> EmptyMap]

\* load_json(STATE_PATH, {}): the default when the file is absent, the
\* document when it parses; json.load raises on an empty or cut document
load_json(f) ==
  IF f.kind = "absent" THEN [ok |-> TRUE, value |-> EmptyMap]
  ELSE IF f.kind = "json" THEN [ok |-> TRUE, value |-> f.map]
  ELSE [ok |-> FALSE, value |-> EmptyMap]

\* -------------------------------------------------------------- the notifier

\* What the webhook answers to one requests.post: a success status, a 429
\* whose Retry-After is absent or an integer, a 429 whose Retry-After is not
\* an integer literal, another error status, or no response (an exception).
Responses == {"ok", "429", "429_bad_retry_after", "error", "exception"}

\* The answers the webhook gives to the requests of one call, in order: a
\* second answer is drawn only where the call can ask a second time.
Exchanges ==
  {<<a>> : a \in Responses \ {"429"}} \cup {<<"429", a>> : a \in Responses}

\* the webhook accepted one of the first n requests of the call
Delivered(answers, n) == \E i \in 1..n : i <= Len(answers) /\ answers[i] = "ok"

StatusOkAlways(resp) == TRUE

\* raise_for_status() passes
StatusOk(resp) == resp = "ok"

\* post_to_slack: the requests made and whether the call returns normally
post_to_slack(answers) ==
  LET first == answers[1]
  IN IF first = "exception" THEN [attempts |-> 1, ok |-> FALSE]
     ELSE IF first = "429_bad_retry_after" THEN [attempts |-> 1, ok |-> FALSE]
     ELSE IF first = "429"
          THEN IF answers[2] = "exception" THEN [attempts |-> 2, ok |-> FALSE]
               ELSE [attempts |-> 2, ok |-> StatusOk(answers[2])]
     ELSE [attempts |-> 1, ok |-> StatusOk(first)]

\* ------------------------------------------------------------------ inputs

\* The entries the feeds may yield: (title, link) pairs.
\*   EntryA, EntryA2  the same item, with and without the tracking parameter
\*                    and the blanks around the title
\*   EntryB           another item
\*   EntryAd          a title the exclude list matches in another case
\*   EntryNoTitle     a blank title;  EntryNoLink  a blank link
EntryA == [title |-> <<"A", "b">>,
           link  |-> <<"x", "/", "a", "?", "u", "t", "m", "_", "s", "=", "1">>]
EntryA2 == [title |-> <<" ", "A", "b", " ">>, link |-> <<"x", "/", "a">>]
EntryB == [title |-> <<"b">>, link |-> <<"x", "/", "b", "?", "q", "=", "1">>]
EntryAd == [title |-> <<"A", "D", " ", "b">>, link |-> <<"x", "/", "c">>]
EntryNoTitle == [title |-> <<" ">>, link |-> <<"x", "/", "a">>]
EntryNoLink == [title |-> <<"A", "b">>, link |-> <<" ">>]
Entries == {EntryA, EntryA2, EntryB, EntryAd, EntryNoTitle, EntryNoLink}

\* exclude_words.json: a list with an empty pattern and the pattern "ad"
ExcludeLists == {<< <<>>, <<"a", "d">> >>}

\* feeds.json: the first n of these URLs
FeedUrls == [i \in 1..MaxFeeds |-> i]

\* a record of posted.json that is not an integer timestamp
LegacyKey == sha256(<<"o", "l", "d">>)
InitialFiles == {FileAbsent, FileJson(SetItem(EmptyMap, LegacyKey, JText))}

\* the seconds that pass between one run and the next; time is counted from
\* the first run
Day == 24 * 60 * 60
Deltas == {0, Day}

Procs == {1, 2}

\* -------------------------------------------------------------------- state

VARIABLES
  disk,               \* the file at STATE_PATH
  clock,              \* time.time()
  runs,               \* runs started
  pc,                 \* where each process is in main()
  WARM_START, SLACK_WEBHOOK_URL, MAX_POSTS_PER_RUN, PRUNE_DAYS,
  feeds, exclude_words, state, now, posted_count, new_count,
  feed_i,             \* the feed of `for feed_url in feeds`
  entry_i,            \* entries of the current feed iterated so far
  stdout,             \* the summary line printed, <<>> before
  disk0,              \* history: the file when the run started
  loaded,             \* history: state as loaded
  kept,               \* history: state after prune_state
  sent,               \* history: keys of the items the webhook accepted
  attempts,           \* history: requests.post calls of the run
  qualified,          \* history: keys of the entries that passed the filters
  entry,              \* history: the entry iterated last
  outcome,            \* history: what the loop body did with it
  overlap,            \* history: a process loaded the store while another
                      \* had loaded it and not yet saved
  args,               \* a call of one of the functions: its name and arguments
  ret                 \* what the call returned, <<>> before

env  == <<WARM_START, SLACK_WEBHOOK_URL, MAX_POSTS_PER_RUN, PRUNE_DAYS>>
loc  == <<feeds, exclude_words, state, now, posted_count, new_count, feed_i,
         entry_i>>
hist == <<disk0, loaded, kept, sent, attempts, qualified, entry, outcome,
          overlap>>
call == <<args, ret>>
vars == <<disk, clock, runs, pc, env, loc, stdout, hist, call>>

\* no entry iterated yet
NoEntry == [title |-> <<>>, link |-> <<>>]

\* the process is between its start and its end
Active(r) == pc[r] \notin {"idle", "done", "failed"}

\* Process 1 stands at `at` in main() with `st` as its state and PRUNE_DAYS
\* `days`, the file is f and the clock reads c; everything else is as at
\* the start.
InitWith(f, c, at, days, st) ==
  /\ disk = f
  /\ clock = c
  /\ runs = 0
  /\ pc = [r \in Procs |-> IF r = 1 THEN at ELSE "idle"]
  /\ WARM_START = [r \in Procs |-> FALSE]
  /\ SLACK_WEBHOOK_URL = [r \in Procs |-> ""]
  /\ MAX_POSTS_PER_RUN = [r \in Procs |-> 0]
  /\ PRUNE_DAYS = [r \in Procs |-> IF r = 1 THEN days ELSE 0]
  /\ feeds = [r \in Procs |-> <<>>]
  /\ exclude_words = [r \in Procs |-> <<>>]
  /\ state = [r \in Procs |-> IF r = 1 THEN st ELSE EmptyMap]
  /\ now = [r \in Procs |-> 0]
  /\ posted_count = [r \in Procs |-> 0]
  /\ new_count = [r \in Procs |-> 0]
  /\ feed_i = [r \in Procs |-> 0]
  /\ entry_i = [r \in Procs |-> 0]
  /\ stdout = [r \in Procs |-> <<>>]
  /\ disk0 = [r \in Procs |-> FileAbsent]
  /\ loaded = [r \in Procs |-> IF r = 1 THEN st ELSE EmptyMap]
  /\ kept = [r \in Procs |-> EmptyMap]
  /\ sent = [r \in Procs |-> {}]
  /\ attempts = [r \in Procs |-> 0]
  /\ qualified = [r \in Procs |-> {}]
  /\ entry = [r \in Procs |-> NoEntry]
  /\ outcome = [r \in Procs |-> "none"]
  /\ overlap = FALSE
  /\ ret = <<>>

\* No process runs yet; posted.json is absent or holds a legacy record.
Init ==
  /\ \E f \in InitialFiles : InitWith(f, 0, "idle", 0, EmptyMap)
  /\ args = <<>>

\* ------------------------------------------------------------------ main()

\* A process starts, some time after the last one: the module reads its
\* configuration from the environment.
StartRun(r) ==
  /\ pc[r] = "idle"
  /\ runs < MaxRuns
  /\ runs' = runs + 1
  /\ \E d \in (IF runs = 0 THEN {0} ELSE Deltas) : clock' = clock + d
  /\ \E warm \in BOOLEAN, url \in {"", "https://hooks"},
        cap \in 0..MaxCap, days \in 0..MaxPruneDays :
       /\ WARM_START' = [WARM_START EXCEPT ![r] = warm]
       /\ SLACK_WEBHOOK_URL' = [SLACK_WEBHOOK_URL EXCEPT ![r] = url]
       /\ MAX_POSTS_PER_RUN' = [MAX_POSTS_PER_RUN EXCEPT ![r] = cap]
       /\ PRUNE_DAYS' = [PRUNE_DAYS EXCEPT ![r] = days]
  /\ pc' = [pc EXCEPT ![r] = "main"]
  /\ disk0' = [disk0 EXCEPT ![r] = disk]
  /\ UNCHANGED <<disk, loc, stdout, loaded, kept, sent, attempts, qualified,
                 entry, outcome, overlap, call>>

\* The process is gone, and its memory with it.
Gone(r) ==
  /\ pc' = [pc EXCEPT ![r] = "idle"]
  /\ WARM_START' = [WARM_START EXCEPT ![r] = FALSE]
  /\ SLACK_WEBHOOK_URL' = [SLACK_WEBHOOK_URL EXCEPT ![r] = ""]
  /\ MAX_POSTS_PER_RUN' = [MAX_POSTS_PER_RUN EXCEPT ![r] = 0]
  /\ PRUNE_DAYS' = [PRUNE_DAYS EXCEPT ![r] = 0]
  /\ feeds' = [feeds EXCEPT ![r] = <<>>]
  /\ exclude_words' = [exclude_words EXCEPT ![r] = <<>>]
  /\ state' = [state EXCEPT ![r] = EmptyMap]
  /\ now' = [now EXCEPT ![r] = 0]
  /\ posted_count' = [posted_count EXCEPT ![r] = 0]
  /\ new_count' = [new_count EXCEPT ![r] = 0]
  /\ feed_i' = [feed_i EXCEPT ![r] = 0]
  /\ entry_i' = [entry_i EXCEPT ![r] = 0]
  /\ stdout' = [stdout EXCEPT ![r] = <<>>]
  /\ disk0' = [disk0 EXCEPT ![r] = FileAbsent]
  /\ loaded' = [loaded EXCEPT ![r] = EmptyMap]
  /\ kept' = [kept EXCEPT ![r] = EmptyMap]
  /\ sent' = [sent EXCEPT ![r] = {}]
  /\ attempts' = [attempts EXCEPT ![r] = 0]
  /\ qualified' = [qualified EXCEPT ![r] = {}]
  /\ entry' = [entry EXCEPT ![r] = NoEntry]
  /\ outcome' = [outcome EXCEPT ![r] = "none"]
  /\ UNCHANGED <<overlap, call>>

\* The process has ended, normally or by an exception.
Exit(r) ==
  /\ pc[r] \in {"done", "failed"}
  /\ Gone(r)
  /\ UNCHANGED <<disk, clock, runs>>

UnconfiguredAnyMode(url, warm) == url = ""

\* `not SLACK_WEBHOOK_URL and not WARM_START`
Unconfigured(url, warm) == url = "" /\ ~warm

\* the precondition: RuntimeError when there is no webhook outside warm start
Validate(r) ==
  /\ pc[r] = "main"
  /\ pc' = [pc EXCEPT ![r] =
              IF Unconfigured(SLACK_WEBHOOK_URL[r], WARM_START[r])
              THEN "failed" ELSE "load"]
  /\ UNCHANGED <<disk, clock, runs, env, loc, stdout, hist, call>>

\* the three load_json calls
Load(r) ==
  /\ pc[r] = "load"
  /\ \E n \in 0..MaxFeeds, xs \in ExcludeLists :
       /\ feeds' = [feeds EXCEPT ![r] = SubSeq(FeedUrls, 1, n)]
       /\ exclude_words' = [exclude_words EXCEPT ![r] = xs]
  /\ LET l == load_json(disk)
     IN IF l.ok
        THEN /\ state' = [state EXCEPT ![r] = l.value]
             /\ loaded' = [loaded EXCEPT ![r] = l.value]
             /\ pc' = [pc EXCEPT ![r] = "prune"]
        ELSE /\ pc' = [pc EXCEPT ![r] = "failed"]
             /\ UNCHANGED <<state, loaded>>
  /\ overlap' = (overlap \/ \E q \in Procs \ {r} :
                                pc[q] \in {"prune", "feeds", "entries", "save"})
  /\ UNCHANGED <<disk, clock, runs, env, now, posted_count, new_count, feed_i,
                 entry_i, stdout, disk0, kept, sent, attempts, qualified,
                 entry, outcome, call>>

\* now = int(time.time()); prune_state(state, now, PRUNE_DAYS)
Prune(r) ==
  /\ pc[r] = "prune"
  /\ now' = [now EXCEPT ![r] = clock]
  /\ state' = [state EXCEPT ![r] = prune_state(state[r], clock, PRUNE_DAYS[r])]
  /\ kept' = [kept EXCEPT ![r] = state'[r]]
  /\ pc' = [pc EXCEPT ![r] = "feeds"]
  /\ UNCHANGED <<disk, clock, runs, env, feeds, exclude_words, posted_count,
                 new_count, feed_i, entry_i, stdout, disk0, loaded, sent, attempts,
                 qualified, entry, outcome, overlap, call>>

CapReachedStrict(posted, cap) == posted > cap

\* `posted_count >= MAX_POSTS_PER_RUN`
CapReached(posted, cap) == posted >= cap

\* the check after the inner loop: break out of the feeds, or go on
AfterInnerLoop(posted, cap) ==
  IF CapReached(posted, cap) THEN "save" ELSE "feeds"

\* `for feed_url in feeds`: the next feed is fetched, or the loop ends
NextFeed(r) ==
  /\ pc[r] = "feeds"
  /\ IF feed_i[r] < Len(feeds[r])
     THEN /\ feed_i' = [feed_i EXCEPT ![r] = @ + 1]
          /\ pc' = [pc EXCEPT ![r] = "entries"]
     ELSE /\ pc' = [pc EXCEPT ![r] = "save"]
          /\ UNCHANGED feed_i
  /\ entry_i' = [entry_i EXCEPT ![r] = 0]
  /\ entry' = [entry EXCEPT ![r] = NoEntry]
  /\ outcome' = [outcome EXCEPT ![r] = "none"]
  /\ UNCHANGED <<disk, clock, runs, env, feeds, exclude_words, state, now,
                 posted_count, new_count, stdout, disk0, loaded, kept, sent,
                 attempts, qualified, overlap, call>>

IncompleteTitleOnly(title, link) == title = <<>>

\* `if not title or not link`
Incomplete(title, link) == title = <<>> \/ link = <<>>

InStateNever(key, st) == FALSE

\* `if key in state`
InState(key, st) == key \in DOMAIN st

DryRunOff(warm) == FALSE

\* `if WARM_START: continue`
DryRun(warm) == warm

AfterPostFailureSaves == "save"

AfterPostFailureContinues == "entries"

\* where an exception raised by post_to_slack leaves the process
AfterPostFailure == "failed"

RecordedAtClock(now_ts, clock_ts) == clock_ts

\* `state[key] = now`: the timestamp of a record is the run's `now`, not
\* the time of the assignment
RecordedAt(now_ts, clock_ts) == now_ts

\* The loop body's pure calls, tabulated over the inputs of the model:
\* title and link as extracted and trimmed, the identity key, the filter.
TitleOf == [e \in Entries |-> strip(e.title)]
LinkOf == [e \in Entries |-> strip(e.link)]
KeyOf == [e \in Entries |-> stable_key(TitleOf[e], LinkOf[e])]
ExcludedBy ==
  [e \in Entries |-> [xs \in ExcludeLists |-> is_excluded(TitleOf[e], xs)]]

\* One iteration of `for e in entries`: the loop body on entry e.
Body(r, e) ==
  LET title == TitleOf[e]
      link  == LinkOf[e]
      key   == KeyOf[e]
      skip(why) ==
        /\ outcome' = [outcome EXCEPT ![r] = why]
        /\ UNCHANGED <<pc, state, new_count, posted_count, sent, attempts,
                       qualified>>
  IN IF Incomplete(title, link) THEN skip("incomplete")
     ELSE IF ExcludedBy[e][exclude_words[r]] THEN skip("excluded")
     ELSE IF InState(key, state[r])
     THEN /\ outcome' = [outcome EXCEPT ![r] = "duplicate"]
          /\ qualified' = [qualified EXCEPT ![r] = @ \cup {key}]
          /\ UNCHANGED <<pc, state, new_count, posted_count, sent, attempts>>
     ELSE /\ state' = [state EXCEPT ![r] = SetItem(@, key, JInt(RecordedAt(now[r], clock)))]
          /\ new_count' = [new_count EXCEPT ![r] = @ + 1]
          /\ qualified' = [qualified EXCEPT ![r] = @ \cup {key}]
          /\ IF DryRun(WARM_START[r])
             THEN /\ outcome' = [outcome EXCEPT ![r] = "recorded"]
                  /\ UNCHANGED <<pc, posted_count, sent, attempts>>
             ELSE \E answers \in Exchanges :
                    LET post == post_to_slack(answers)
                    IN /\ attempts' = [attempts EXCEPT ![r] = @ + post.attempts]
                       /\ sent' = [sent EXCEPT ![r] =
                                     IF Delivered(answers, post.attempts)
                                     THEN @ \cup {key} ELSE @]
                       /\ IF post.ok
                          THEN /\ outcome' = [outcome EXCEPT ![r] = "posted"]
                               /\ posted_count' = [posted_count EXCEPT ![r] = @ + 1]
                               /\ pc' = [pc EXCEPT ![r] =
                                    IF CapReached(posted_count'[r],
                                                  MAX_POSTS_PER_RUN[r])
                                    THEN AfterInnerLoop(posted_count'[r],
                                                        MAX_POSTS_PER_RUN[r])
                                    ELSE "entries"]
                          ELSE /\ outcome' = [outcome EXCEPT ![r] = "post_failed"]
                               /\ pc' = [pc EXCEPT ![r] = AfterPostFailure]
                               /\ UNCHANGED posted_count

\* `for e in entries`: the feed yields another entry and the body runs on it
Entry(r) ==
  /\ pc[r] = "entries"
  /\ entry_i[r] < MaxEntries
  /\ entry_i' = [entry_i EXCEPT ![r] = @ + 1]
  /\ \E e \in Entries : entry' = [entry EXCEPT ![r] = e] /\ Body(r, e)
  /\ UNCHANGED <<disk, clock, runs, env, feeds, exclude_words, now, feed_i,
                 stdout, disk0, loaded, kept, overlap, call>>

\* `for e in entries`: the entries are exhausted; the check after the loop
EndFeed(r) ==
  /\ pc[r] = "entries"
  /\ pc' = [pc EXCEPT ![r] =
              AfterInnerLoop(posted_count[r], MAX_POSTS_PER_RUN[r])]
  /\ entry_i' = [entry_i EXCEPT ![r] = 0]
  /\ entry' = [entry EXCEPT ![r] = NoEntry]
  /\ outcome' = [outcome EXCEPT ![r] = "none"]
  /\ UNCHANGED <<disk, clock, runs, env, feeds, exclude_words, state, now,
                 posted_count, new_count, feed_i, stdout, disk0, loaded, kept,
                 sent, attempts, qualified, overlap, call>>

\* save_json: open(path, "w") truncates the file
SaveOpen(r) ==
  /\ pc[r] = "save"
  /\ disk' = FileEmpty
  /\ pc' = [pc EXCEPT ![r] = "dump"]
  /\ entry_i' = [entry_i EXCEPT ![r] = 0]
  /\ entry' = [entry EXCEPT ![r] = NoEntry]
  /\ outcome' = [outcome EXCEPT ![r] = "none"]
  /\ UNCHANGED <<clock, runs, env, feeds, exclude_words, state, now,
                 posted_count, new_count, feed_i, stdout, disk0, loaded, kept,
                 sent, attempts, qualified, overlap, call>>

\* save_json: json.dump and the close of the file; then the summary line
\* print(f"new={new_count} posted={posted_count} warm_start={WARM_START}")
SaveDump(r) ==
  /\ pc[r] = "dump"
  /\ disk' = FileJson(state[r])
  /\ stdout' = [stdout EXCEPT ![r] =
                  <<new_count[r], posted_count[r], WARM_START[r]>>]
  /\ pc' = [pc EXCEPT ![r] = "done"]
  /\ UNCHANGED <<clock, runs, env, loc, hist, call>>

\* The process is killed between the truncation and the end of the write:
\* the file stays empty or holds a prefix of the document.
Kill(r) ==
  /\ pc[r] = "dump"
  /\ disk' \in {FileEmpty, FilePartial}
  /\ Gone(r)
  /\ UNCHANGED <<clock, runs>>

\* One process at a time: the scheduler starts a run after the last has ended.
Next ==
  \E r \in {1} :
    \/ StartRun(r)
    \/ Validate(r)
    \/ Load(r)
    \/ Prune(r)
    \/ NextFeed(r)
    \/ Entry(r)
    \/ EndFeed(r)
    \/ SaveOpen(r)
    \/ SaveDump(r)
    \/ Kill(r)
    \/ Exit(r)

Spec == Init /\ [][Next]_vars

\* ------------------------------------------------- prune_state on any ledger

\* the keys and the values of the ledgers prune_state is applied to
LedgerKeys == {KeyOf[EntryA], KeyOf[EntryB], LegacyKey}
Stamps == {0, Day - 1, Day, 2 * Day}
LedgerValues == {JText} \cup {JInt(t) : t \in Stamps}
Ledgers ==
  UNION {[ks -> LedgerValues] : ks \in SUBSET LedgerKeys}
Times == {Day, 2 * Day}

\* A process that has loaded any ledger, at any time, with any PRUNE_DAYS.
PruneInit ==
  /\ \E st \in Ledgers, c \in Times, days \in 0..MaxPruneDays :
       InitWith(FileJson(st), c, "prune", days, st)
  /\ args = <<>>

PruneNext == Prune(1)

SpecPrune == PruneInit /\ [][PruneNext]_vars

\* --------------------------------------------------- a run that takes time

\* posted.json before the run: absent, or records of two days and a legacy one
ClockFiles ==
  {FileAbsent,
   FileJson([k \in LedgerKeys |->
               IF k = LegacyKey THEN JText
               ELSE IF k = KeyOf[EntryA] THEN JInt(0) ELSE JInt(Day)])}

ClockInit ==
  /\ \E f \in ClockFiles, c \in Times : InitWith(f, c, "idle", 0, EmptyMap)
  /\ args = <<>>

\* A second passes while the run fetches a feed, posts or sleeps (line 121).
Tick(r) ==
  /\ pc[r] \in {"feeds", "entries"}
  /\ clock < now[r] + MaxTicks
  /\ clock' = clock + 1
  /\ UNCHANGED <<disk, runs, pc, env, loc, stdout, hist, call>>

\* One run, from its start to its end, with the clock running.
ClockNext ==
  \E r \in {1} :
    \/ StartRun(r)
    \/ Validate(r)
    \/ Load(r)
    \/ Prune(r)
    \/ Tick(r)
    \/ NextFeed(r)
    \/ Entry(r)
    \/ EndFeed(r)
    \/ SaveOpen(r)
    \/ SaveDump(r)

SpecClock == ClockInit /\ [][ClockNext]_vars

\* ------------------------------------------------- two runs that may overlap

\* Two processes, each started once at any moment, with nothing to keep the
\* second from starting while the first is running (there is no lock on
\* STATE_PATH).  Both notify, with the largest cap, read one feed that
\* yields EntryA or EntryB, and the webhook accepts what they post.
OverlapNext ==
  \E r \in Procs :
    \/ /\ StartRun(r)
       /\ ~WARM_START'[r]
       /\ SLACK_WEBHOOK_URL'[r] # ""
       /\ MAX_POSTS_PER_RUN'[r] = MaxCap
    \/ Validate(r)
    \/ Load(r) /\ Len(feeds'[r]) = 1
    \/ Prune(r)
    \/ NextFeed(r)
    \/ /\ Entry(r)
       /\ entry'[r] \in {EntryA, EntryB}
       /\ outcome'[r] # "post_failed"
       /\ attempts'[r] <= attempts[r] + 1
    \/ EndFeed(r)
    \/ SaveOpen(r)
    \/ SaveDump(r)

SpecOverlap == Init /\ [][OverlapNext]_vars

\* ------------------------------------------------ the functions on any input

\* all sequences over S of length at most n
SeqsUpTo(S, n) == UNION {[1..m -> S] : m \in 0..n}

\* A query field as the link carries it: the key, the value, and whether
\* the field holds an "=".
\*   utm_s=1  UTM_x=  fbclid=1  Gclid=2    tracking parameters
\*   q=1  b=  flag  utmx=1  fbclidx=1      other parameters
\*   the empty field between two "&"
P_utm     == [k |-> <<"u", "t", "m", "_", "s">>, v |-> <<"1">>, eq |-> TRUE]
P_UTM     == [k |-> <<"U", "T", "M", "_", "x">>, v |-> <<>>, eq |-> TRUE]
P_fbclid  == [k |-> <<"f", "b", "c", "l", "i", "d">>, v |-> <<"1">>, eq |-> TRUE]
P_Gclid   == [k |-> <<"G", "c", "l", "i", "d">>, v |-> <<"2">>, eq |-> TRUE]
P_q       == [k |-> <<"q">>, v |-> <<"1">>, eq |-> TRUE]
P_b       == [k |-> <<"b">>, v |-> <<>>, eq |-> TRUE]
P_flag    == [k |-> <<"f", "l", "a", "g">>, v |-> <<>>, eq |-> FALSE]
P_utmx    == [k |-> <<"u", "t", "m", "x">>, v |-> <<"1">>, eq |-> TRUE]
P_fbclidx == [k |-> <<"f", "b", "c", "l", "i", "d", "x">>, v |-> <<"1">>,
              eq |-> TRUE]
P_empty   == [k |-> <<>>, v |-> <<>>, eq |-> FALSE]
Params ==
  {P_utm, P_UTM, P_fbclid, P_Gclid, P_q, P_b, P_flag, P_utmx, P_fbclidx,
   P_empty}

\* the text of one field, and of a link given by its parts
FieldText(p) == p.k \o (IF p.eq THEN <<"=">> \o p.v ELSE <<>>)
LinkText(l) ==
  l.path
    \o (IF l.params = <<>> THEN <<>>
        ELSE <<"?">> \o join([i \in 1..Len(l.params) |->
                                 FieldText(l.params[i])], <<"&">>))
    \o (IF l.fragment = <<>> THEN <<>> ELSE <<"#">> \o l.fragment)

\* the links normalize_url is applied to
Links ==
  [path : {<<"x", "/", "a">>}, params : SeqsUpTo(Params, MaxParams),
   fragment : {<<>>, <<"f">>}]

\* the (title, link) pairs stable_key is applied to: titles with blanks and
\* line breaks around and inside, links with a line break inside
KeyTitles ==
  {<<"b">>, <<" ", "b", "\n">>, <<"A", "\n", "b">>, <<"A", "b">>}
KeyLinks ==
  [path : {<<"x", "/", "a">>, <<"x", "/", "a", "\n", "A">>},
   params : SeqsUpTo({P_utm, P_q}, MaxParams),
   fragment : {<<>>}]
KeyPairs == [title : KeyTitles, link : KeyLinks]

\* the titles and the exclude lists is_excluded is applied to
Titles ==
  {<<>>, <<" ">>, <<"A", "b">>, <<" ", "A", "D", " ", "b", " ">>, <<"b">>,
   <<"a", " ", "d">>}
Patterns == {<<>>, <<"a", "d">>, <<"B">>, <<" ">>}
WordLists == SeqsUpTo(Patterns, MaxWords)

\* one call: the name of the function and its arguments
CallInputs ==
  {<<"post_to_slack", a>> : a \in Exchanges}
    \cup {<<"normalize_url", l>> : l \in Links}
    \cup {<<"stable_key", p, q>> : p \in KeyPairs, q \in KeyPairs}
    \cup {<<"is_excluded", t, xs>> : t \in Titles, xs \in WordLists}

CallsInit ==
  /\ InitWith(FileAbsent, 0, "idle", 0, EmptyMap)
  /\ args \in CallInputs

\* the call returns
Return(name, value) ==
  /\ args[1] = name
  /\ ret = <<>>
  /\ ret' = <<value>>
  /\ UNCHANGED <<disk, clock, runs, pc, env, loc, stdout, hist, args>>

CallPostToSlack == Return("post_to_slack", post_to_slack(args[2]))

\* normalize_url(link), and normalize_url of its result
CallNormalizeUrl ==
  Return("normalize_url",
         LET n == normalize_url(LinkText(args[2]))
         IN <<n, normalize_url(n)>>)

\* stable_key of the two pairs
CallStableKey ==
  Return("stable_key",
         <<stable_key(args[2].title, LinkText(args[2].link)),
           stable_key(args[3].title, LinkText(args[3].link))>>)

CallIsExcluded == Return("is_excluded", is_excluded(args[2], args[3]))

CallsNext ==
  \/ CallPostToSlack
  \/ CallNormalizeUrl
  \/ CallStableKey
  \/ CallIsExcluded

SpecCalls == CallsInit /\ [][CallsNext]_vars

\* ------------------------------------------------------------------ claims

\* process r takes one iteration of `for e in entries`
EntryStep(r) == pc[r] = "entries" /\ entry_i'[r] = entry_i[r] + 1

\* the record of key k in file f would be removed by the prune of run r
Stale(f, k, r) ==
  /\ f.map[k][1] = "int"
  /\ f.map[k][2] < now[r] - PRUNE_DAYS[r] * 86400

\* one iteration on an entry whose key is in the mapping changes nothing
C1_Step ==
  \A r \in Procs :
    (EntryStep(r) /\ KeyOf[entry'[r]] \in DOMAIN state[r])
    => /\ state'[r] = state[r]
       /\ new_count'[r] = new_count[r]
       /\ posted_count'[r] = posted_count[r]
       /\ attempts'[r] = attempts[r]
       /\ sent'[r] = sent[r]

\* a finished run kept, did not deliver and did not count the loaded keys
C1_Run ==
  \A r \in Procs :
    pc[r] = "done" =>
      LET old == {k \in DOMAIN disk0[r].map : ~Stale(disk0[r], k, r)}
      IN /\ sent[r] \cap old = {}
         /\ \A k \in old : k \in DOMAIN state[r] /\ state[r][k] = disk0[r].map[k]
         /\ new_count[r] = Cardinality((DOMAIN state[r]) \ old)
         /\ (qualified[r] \subseteq old => stdout[r][1] = 0 /\ stdout[r][2] = 0)

\* C1: an entry whose identity key is already in the state mapping is not
\* notified, is not counted as new and leaves the mapping unchanged; a run
\* that ends delivers and counts nothing for the keys it found in the
\* persisted store and did not prune, so a run that only meets such entries
\* reports new=0 posted=0.
C1_AtMostOnce == []C1_Run /\ [][C1_Step]_vars

\* a second run that met only entries recorded by the first: new=0 posted=0
C1_Witness ==
  /\ runs = 2
  /\ pc[1] = "done"
  /\ ~WARM_START[1]
  /\ qualified[1] # {}
  /\ qualified[1] \subseteq DOMAIN disk0[1].map
  /\ stdout[1] = <<0, 0, FALSE>>

\* process r is past prune_state and before its end
Looping(r) == pc[r] \in {"feeds", "entries", "save", "dump", "done"}

\* the keys process r has added to the mapping it loaded and pruned
Added(r) == (DOMAIN state[r]) \ (DOMAIN kept[r])

\* C2: in dry-run mode no delivery attempt is ever made: no request is sent,
\* the posted counter is 0 throughout and in the summary, while every entry
\* that passes the filters has its key in the state mapping and every key
\* added is counted as new.
C2_DryRunNeverPosts ==
  \A r \in Procs :
    WARM_START[r] =>
      /\ attempts[r] = 0
      /\ sent[r] = {}
      /\ posted_count[r] = 0
      /\ stdout[r] # <<>> => stdout[r] = <<new_count[r], 0, TRUE>>
      /\ Looping(r) => /\ qualified[r] \subseteq DOMAIN state[r]
                       /\ new_count[r] = Cardinality(Added(r))

\* a dry run without a webhook that ends with new=1 posted=0
C2_Witness ==
  /\ WARM_START[1]
  /\ SLACK_WEBHOOK_URL[1] = ""
  /\ pc[1] = "done"
  /\ stdout[1] = <<1, 0, TRUE>>
  /\ Cardinality(Added(1)) = 1

\* C3: when a notification fails, the run aborts before the save step: the
\* process is left failed, the file is what it was when the run started, and
\* no summary is printed.
C3_AbortLeavesStore ==
  \A r \in Procs :
    outcome[r] = "post_failed" =>
      /\ pc[r] = "failed"
      /\ disk = disk0[r]
      /\ stdout[r] = <<>>

\* a run that pruned a record and delivered an item before a later
\* notification failed: neither shows in the file
C3_Witness ==
  /\ outcome[1] = "post_failed"
  /\ pc[1] = "failed"
  /\ sent[1] # {}
  /\ kept[1] # loaded[1]
  /\ disk.kind = "json"
  /\ disk.map = loaded[1]

\* C4: in the mapping saved by a run outside dry-run, every key the run
\* added is the key of an item the webhook accepted in that run.
C4_SavedKeysDelivered ==
  \A r \in Procs :
    (pc[r] = "done" /\ ~WARM_START[r]) =>
      /\ disk.kind = "json"
      /\ ((DOMAIN disk.map) \ (DOMAIN kept[r])) \subseteq sent[r]

\* a run outside dry-run that saved two keys of its own
C4_Witness ==
  /\ pc[1] = "done"
  /\ ~WARM_START[1]
  /\ Cardinality((DOMAIN disk.map) \ (DOMAIN kept[1])) = 2
  /\ posted_count[1] = 2

\* C5: outside dry-run the number of items delivered in a run never exceeds
\* the configured cap, for every cap >= 0.
C5_PostedWithinCap ==
  \A r \in Procs :
    ~WARM_START[r] => posted_count[r] <= MAX_POSTS_PER_RUN[r]

\* the entry is skipped: a blank title, a blank link, or a non-empty pattern
\* of the list in its title, compared without case
C6_Skipped ==
  [e \in Entries |-> [xs \in ExcludeLists |->
    \/ strip(e.title) = <<>>
    \/ strip(e.link) = <<>>
    \/ \E i \in 1..Len(xs) :
         xs[i] # <<>> /\ contains(lower(strip(e.title)), lower(xs[i]))]]

\* one iteration on a skipped entry changes nothing and stays in the feed
C6_Step ==
  \A r \in Procs :
    (EntryStep(r) /\ C6_Skipped[entry'[r]][exclude_words[r]])
    => /\ state'[r] = state[r]
       /\ new_count'[r] = new_count[r]
       /\ posted_count'[r] = posted_count[r]
       /\ attempts'[r] = attempts[r]
       /\ sent'[r] = sent[r]
       /\ pc'[r] = "entries"
       /\ feed_i'[r] = feed_i[r]
       /\ feeds'[r] = feeds[r]

\* C6: an entry skipped for a blank title or link, or by the exclude list,
\* changes nothing: no key is added, the counters stand, no request is made,
\* and the loop goes on with the same feed.
C6_SkipIsNoOp == [][C6_Step]_vars

\* the excluded entry was skipped after another entry had been recorded
C6_Witness ==
  /\ pc[1] = "entries"
  /\ entry[1] = EntryAd
  /\ outcome[1] = "excluded"
  /\ new_count[1] = 1

\* C7: a dry run, whatever the cap, ends with every feed of the list
\* iterated and the key of every entry that passed the filters saved.
C7_DryRunSeedsAll ==
  \A r \in Procs :
    (pc[r] = "done" /\ WARM_START[r]) =>
      /\ feed_i[r] = Len(feeds[r])
      /\ qualified[r] \subseteq DOMAIN disk.map

\* C8: whenever no process is inside save_json, the file is absent or a
\* complete document: a load never meets an empty or cut one.
C8_SaveAtomic ==
  (\A r \in Procs : pc[r] # "dump") => disk.kind \in {"absent", "json"}

C10_Step ==
  \A r \in Procs :
    \A k \in (DOMAIN state[r]) \cap (DOMAIN state'[r]) :
      state'[r][k] = state[r][k]

\* a finished run saved every loaded, unpruned record as it was
C10_Saved ==
  \A r \in Procs :
    pc[r] = "done" =>
      \A k \in DOMAIN disk0[r].map :
        Stale(disk0[r], k, r) \/
          (k \in DOMAIN disk.map /\ disk.map[k] = disk0[r].map[k])

\* C10: a recorded timestamp is never changed: no step changes the value of
\* a key that stays in the mapping, and a run saves every record it loaded
\* and did not prune with the value it had.
C10_FirstSeen == []C10_Saved /\ [][C10_Step]_vars

\* a run a day later met an item again and saved its first timestamp
C10_Witness ==
  /\ runs = 2
  /\ pc[1] = "done"
  /\ now[1] = Day
  /\ \E k \in qualified[1] :
       k \in DOMAIN disk.map /\ disk.map[k] = JInt(0)

\* a run without a webhook outside dry-run has done nothing and stays failed
C11_Untouched ==
  \A r \in Procs :
    (pc[r] # "idle" /\ SLACK_WEBHOOK_URL[r] = "" /\ ~WARM_START[r])
    => /\ pc[r] \in {"main", "failed"}
       /\ feeds[r] = <<>>
       /\ exclude_words[r] = <<>>
       /\ loaded[r] = EmptyMap
       /\ state[r] = EmptyMap
       /\ feed_i[r] = 0
       /\ attempts[r] = 0
       /\ sent[r] = {}
       /\ stdout[r] = <<>>
       /\ disk = disk0[r]

\* the first step of main() fails in that case only, and else goes to the loads
C11_Step ==
  \A r \in Procs :
    (pc[r] = "main" /\ pc'[r] # "main")
    => pc'[r] = IF SLACK_WEBHOOK_URL[r] = "" /\ ~WARM_START[r]
                THEN "failed" ELSE "load"

\* C11: with no webhook URL and WARM_START off the run fails before any
\* processing: nothing is loaded, no feed is fetched, no request is made and
\* the file is unchanged; with WARM_START on the run goes on to the loads
\* even without a webhook URL.
C11_FailFast == []C11_Untouched /\ [][C11_Step]_vars

\* a run without a webhook failed and left the store of the run before it
C11_Witness ==
  /\ pc[1] = "failed"
  /\ SLACK_WEBHOOK_URL[1] = ""
  /\ ~WARM_START[1]
  /\ disk.kind = "json"
  /\ KeyOf[EntryB] \in DOMAIN disk.map
  /\ disk = disk0[1]

\* C12: one call of post_to_slack makes exactly one request, or exactly two
\* when and only when the first response is a 429, and it fails if and only
\* if its last request did not get a success response.
C12_OneRetry ==
  (ret # <<>> /\ args[1] = "post_to_slack") =>
    LET answers == args[2]
        n       == ret[1].attempts
    IN /\ n = IF answers[1] \in {"429", "429_bad_retry_after"} THEN 2 ELSE 1
       /\ n <= Len(answers)
       /\ ret[1].ok <=> answers[n] = "ok"

\* the query fields that are tracking parameters, by name
TrackingParams == {P_utm, P_UTM, P_fbclid, P_Gclid}

\* the fields of a link that are no tracking parameters, in their order
Untracked(l) == SelectSeq(l.params, LAMBDA p : p \notin TrackingParams)

\* the title without the whitespace around it
C13_Trimmed ==
  [t \in KeyTitles |-> IF t = <<" ", "b", "\n">> THEN <<"b">> ELSE t]

\* two pairs are the same item: the titles agree up to the whitespace
\* around them, the links up to their tracking parameters
C13_SameItem(p, q) ==
  /\ C13_Trimmed[p.title] = C13_Trimmed[q.title]
  /\ SelectSeq(p.link.path, LAMBDA c : c # "\n")
       = SelectSeq(q.link.path, LAMBDA c : c # "\n")
  /\ Untracked(p.link) = Untracked(q.link)
  /\ p.link.fragment = q.link.fragment

\* C13: two (title, link) pairs get the same key exactly when they are
\* equal up to the tracking parameters of the link and the whitespace around
\* the title; pairs whose trimmed titles or normalized links differ get
\* different keys, the digest being injective.
C13_KeyOfItem ==
  (ret # <<>> /\ args[1] = "stable_key") =>
    (ret[1][1] = ret[1][2] <=> C13_SameItem(args[2], args[3]))

\* one key for two pairs that differ in a tracking parameter and in blanks
C13_Witness ==
  /\ ret # <<>>
  /\ args[1] = "stable_key"
  /\ args[2].title = <<"b">>
  /\ args[3].title = <<" ", "b", "\n">>
  /\ args[2].link.params = <<P_q>>
  /\ args[3].link.params = <<P_utm, P_q>>
  /\ args[2].link.path = args[3].link.path
  /\ ret[1][1] = ret[1][2]

\* the link l with the field p put in after its first i fields
C14_Insert(l, p, i) ==
  [l EXCEPT !.params =
     SubSeq(l.params, 1, i) \o <<p>> \o SubSeq(l.params, i + 1, Len(l.params))]

\* the link with its tracking parameters and empty fields left out and
\* every other field written key=value, in the same order
C14_Expected(l) ==
  LET rest == SelectSeq(Untracked(l), LAMBDA p : p # P_empty)
  IN l.path
       \o (IF rest = <<>> THEN <<>>
           ELSE <<"?">> \o join([i \in 1..Len(rest) |->
                                   rest[i].k \o <<"=">> \o rest[i].v],
                                <<"&">>))
       \o (IF l.fragment = <<>> THEN <<>> ELSE <<"#">> \o l.fragment)

\* C14: normalize_url removes exactly the query parameters whose key starts
\* with utm_ or is fbclid or gclid, whatever the case of the key, and keeps
\* the others with their values, blank ones too, in their order; it is
\* idempotent, and a tracking parameter put in at any position does not
\* change its result.
C14_NormalizeExact ==
  (ret # <<>> /\ args[1] = "normalize_url") =>
    LET l == args[2]
    IN /\ ret[1][1] = C14_Expected(l)
       /\ ret[1][2] = ret[1][1]
       /\ \A p \in TrackingParams, i \in 0..Len(l.params) :
            normalize_url(LinkText(C14_Insert(l, p, i))) = ret[1][1]

\* an upper-case tracking parameter removed before a kept blank value
C14_Witness ==
  /\ ret # <<>>
  /\ args[1] = "normalize_url"
  /\ args[2].params = <<P_UTM, P_b>>
  /\ args[2].fragment = <<"f">>
  /\ ret[1][1] = <<"x", "/", "a", "?", "b", "=", "#", "f">>

\* two characters are the same letter in either case
C15_SameLetter(a, b) ==
  \/ a = b
  \/ \E i \in 1..Len(UpperCase) :
       {a, b} = {UpperCase[i], LowerCase[i]}

\* the title without the whitespace around it
C15_Trimmed ==
  [t \in Titles |->
     IF t = <<" ">> THEN <<>>
     ELSE IF t = <<" ", "A", "D", " ", "b", " ">> THEN <<"A", "D", " ", "b">>
     ELSE t]

\* pattern w occurs in text t, the case of the letters aside
C15_Occurs(w, t) ==
  \E i \in 0..(Len(t) - Len(w)) :
    \A j \in 1..Len(w) : C15_SameLetter(t[i + j], w[j])

\* C15: is_excluded is true exactly when the trimmed title is empty or a
\* non-empty pattern of the list occurs in the trimmed title, whatever the
\* case; an empty pattern excludes nothing, and the result depends on the
\* set of the patterns only, not on their order or on duplicates.
C15_ExcludedExact ==
  (ret # <<>> /\ args[1] = "is_excluded") =>
    LET t == C15_Trimmed[args[2]]
        words == {args[3][i] : i \in 1..Len(args[3])}
    IN ret[1] <=> (t = <<>> \/ \E w \in words : w # <<>> /\ C15_Occurs(w, t))

\* a title excluded by a pattern in another case that follows an empty one
C15_Witness ==
  /\ args[1] = "is_excluded"
  /\ ret # <<>>
  /\ ret[1]
  /\ args[2] = <<" ", "A", "D", " ", "b", " ">>
  /\ args[3] = << <<>>, <<"a", "d">> >>

\* C16 as stated: the record precedes the cap check, so the run that the
\* cap of 1 stops has recorded the item it stopped on without delivering
\* it, and ends with posted=1 and new=2.
C16_RecordedBeforeCap ==
  \A r \in Procs :
    (/\ pc[r] = "done"
     /\ ~WARM_START[r]
     /\ MAX_POSTS_PER_RUN[r] = 1
     /\ feed_i[r] < Len(feeds[r]))
    => stdout[r] = <<2, 1, FALSE>>

\* C16: in a run that is no dry run the cap is checked only after a
\* delivery, never between the record of an item and its delivery: in the
\* loop and up to the end of the run every key added was delivered and
\* new equals posted, so the run the cap of 1 stops ends with posted=1 and
\* new=1.
C16_RecordedMeansDelivered ==
  \A r \in Procs :
    (~WARM_START[r] /\ Looping(r))
    => /\ new_count[r] = posted_count[r]
       /\ Added(r) \subseteq sent[r]
       /\ (stdout[r] # <<>> /\ MAX_POSTS_PER_RUN[r] = 1)
            => stdout[r] \in {<<0, 0, FALSE>>, <<1, 1, FALSE>>}

\* the cap of 1 stopped the run before its second feed: posted=1 new=1
C16_Witness ==
  /\ pc[1] = "done"
  /\ ~WARM_START[1]
  /\ MAX_POSTS_PER_RUN[1] = 1
  /\ feed_i[1] < Len(feeds[1])
  /\ stdout[1] = <<1, 1, FALSE>>

\* the step that takes the posted counter to the cap leaves both loops
C17_Stop ==
  \A r \in Procs :
    (/\ posted_count'[r] = posted_count[r] + 1
     /\ posted_count'[r] >= MAX_POSTS_PER_RUN[r])
    => pc'[r] = "save"

\* from the save step on nothing is fetched, recorded or delivered, and the
\* process only saves and ends
C17_NoMore ==
  \A r \in Procs :
    (pc[r] \in {"save", "dump"} /\ pc'[r] # "idle")
    => /\ pc'[r] \in (IF pc[r] = "save" THEN {"save", "dump"}
                      ELSE {"dump", "done"})
       /\ state'[r] = state[r]
       /\ new_count'[r] = new_count[r]
       /\ posted_count'[r] = posted_count[r]
       /\ attempts'[r] = attempts[r]
       /\ sent'[r] = sent[r]
       /\ feed_i'[r] = feed_i[r]

\* the run the cap stopped has saved every key it recorded and printed its
\* summary
C17_Saved ==
  \A r \in Procs :
    (/\ pc[r] = "done"
     /\ posted_count[r] >= 1
     /\ posted_count[r] >= MAX_POSTS_PER_RUN[r])
    => /\ disk = FileJson(state[r])
       /\ Added(r) \subseteq DOMAIN disk.map
       /\ sent[r] \subseteq DOMAIN disk.map
       /\ stdout[r] = <<new_count[r], posted_count[r], WARM_START[r]>>

\* C17: when the posted counter reaches the cap the run looks at no further
\* entry and fetches no further feed, goes to the save step, and ends with
\* every key recorded up to the stop in the file and its summary printed.
C17_CapStopsAndSaves == []C17_Saved /\ [][C17_Stop /\ C17_NoMore]_vars

\* the cap of 2 stopped the run before its second feed, both keys saved
C17_Witness ==
  /\ pc[1] = "done"
  /\ MAX_POSTS_PER_RUN[1] = 2
  /\ posted_count[1] = 2
  /\ feed_i[1] < Len(feeds[1])
  /\ {KeyOf[EntryA], KeyOf[EntryB]} \subseteq DOMAIN disk.map
  /\ stdout[1] = <<2, 2, FALSE>>

\* the loaded mapping without the records older than the retention window
C18_Pruned(r) ==
  LET cutoff == now[r] - PRUNE_DAYS[r] * 86400
      old == {k \in DOMAIN loaded[r] :
                loaded[r][k][1] = "int" /\ loaded[r][k][2] < cutoff}
  IN [k \in (DOMAIN loaded[r]) \ old |-> loaded[r][k]]

\* C18: at every point of the loop and at the end of a run without failure
\* the mapping is the loaded mapping after pruning plus the keys recorded in
\* the run, each with the one timestamp taken at the start of the run; new
\* counts the keys added, posted the successful deliveries, posted <= new
\* throughout, and the file and the summary of a finished run say the same.
C18_Ledger ==
  \A r \in Procs :
    /\ posted_count[r] <= new_count[r]
    /\ Looping(r) =>
         LET pruned == C18_Pruned(r)
             added == (DOMAIN state[r]) \ (DOMAIN pruned)
         IN /\ DOMAIN pruned \subseteq DOMAIN state[r]
            /\ \A k \in DOMAIN pruned : state[r][k] = pruned[k]
            /\ \A k \in added : state[r][k] = JInt(now[r])
            /\ new_count[r] = Cardinality(added)
            /\ posted_count[r] = Cardinality(sent[r])
            /\ pc[r] = "done" =>
                 /\ disk = FileJson(state[r])
                 /\ stdout[r] = <<Cardinality(added), Cardinality(sent[r]),
                                  WARM_START[r]>>

\* a run that took more than a second pruned a record, kept one and saved a
\* new one with the time of its start
C18_Witness ==
  /\ pc[1] = "done"
  /\ clock > now[1]
  /\ KeyOf[EntryA] \in DOMAIN loaded[1]
  /\ KeyOf[EntryA] \notin DOMAIN kept[1]
  /\ disk.kind = "json"
  /\ DOMAIN disk.map = LedgerKeys
  /\ disk.map[KeyOf[EntryA]] = JInt(now[1])
  /\ disk.map[KeyOf[EntryB]] = JInt(Day)
  /\ stdout[1] = <<1, 1, FALSE>>

\* both runs have ended without failure
C19_BothDone == \A r \in Procs : pc[r] = "done"

\* an item was delivered by both runs
C19_Twice == sent[1] \cap sent[2] # {}

\* a key recorded by one of the runs is missing from the file
C19_Lost == \E r \in Procs : \E k \in Added(r) : k \notin DOMAIN disk.map

\* C19 as stated: with one run at a time no item is delivered by both runs
\* and no key recorded by the run that saved first is missing from the file.
C19_SerialNeverRepeats ==
  (C19_BothDone /\ ~overlap) => (~C19_Twice /\ ~C19_Lost)

\* C19: with one run at a time the later run loads what the earlier saved,
\* delivers none of its items again and saves all of its records, except
\* the records the later run pruned; two runs that both load the file
\* before either saves can both deliver an item, and the later save drops
\* the keys only the earlier saver recorded.
C19_SerialKeepsUnpruned ==
  (C19_BothDone /\ ~overlap) =>
    \E p \in Procs, q \in Procs :
      /\ p # q
      /\ loaded[q] = state[p]
      /\ disk = FileJson(state[q])
      /\ \A k \in DOMAIN state[p] :
           \/ Stale(FileJson(loaded[q]), k, q)
           \/ /\ k \notin sent[q]
              /\ k \in DOMAIN disk.map
              /\ disk.map[k] = state[p][k]

\* two overlapped runs that pruned nothing: both delivered one item, and a
\* key only the first saver recorded is gone
C19_Witness ==
  /\ C19_BothDone
  /\ overlap
  /\ clock = 0
  /\ C19_Twice
  /\ C19_Lost

\* the record of key k that process r loaded is older than its retention
\* window
C20_Expired(r, k) ==
  /\ k \in DOMAIN loaded[r]
  /\ loaded[r][k][1] = "int"
  /\ loaded[r][k][2] < now[r] - PRUNE_DAYS[r] * 86400

\* in the loop an expired record is gone or was recorded anew in this run,
\* and every other loaded record has the value it was loaded with
C20_PrunedFirst ==
  \A r \in Procs :
    Looping(r) =>
      \A k \in DOMAIN loaded[r] :
        IF C20_Expired(r, k)
        THEN k \in DOMAIN state[r] =>
               (state[r][k] = JInt(now[r]) /\ k \in qualified[r])
        ELSE k \in DOMAIN state[r] /\ state[r][k] = loaded[r][k]

\* the first time the run meets an item whose record expired, it records
\* it with the time of this run, counts it and, outside dry-run, posts it
C20_Step ==
  \A r \in Procs :
    (/\ EntryStep(r)
     /\ ~C6_Skipped[entry'[r]][exclude_words[r]]
     /\ C20_Expired(r, KeyOf[entry'[r]])
     /\ KeyOf[entry'[r]] \notin qualified[r])
    => /\ KeyOf[entry'[r]] \in DOMAIN state'[r]
       /\ state'[r][KeyOf[entry'[r]]] = JInt(now[r])
       /\ new_count'[r] = new_count[r] + 1
       /\ ~WARM_START[r] => attempts'[r] > attempts[r]

\* C20: pruning comes before de-duplication and re-observation never
\* refreshes a timestamp: an item a feed still yields in a run that starts
\* more than the retention window after its first-seen timestamp has lost
\* its record at the start of that run, is treated as new, recorded with
\* the new timestamp and, outside dry-run, delivered again.
C20_ExpiredIsNew == []C20_PrunedFirst /\ [][C20_Step]_vars

\* a run a day later with no retention delivered and recorded anew the item
\* the run before had recorded
C20_Witness ==
  /\ runs = 2
  /\ pc[1] = "done"
  /\ ~WARM_START[1]
  /\ PRUNE_DAYS[1] = 0
  /\ now[1] = Day
  /\ KeyOf[EntryA] \in DOMAIN loaded[1]
  /\ loaded[1][KeyOf[EntryA]] = JInt(0)
  /\ KeyOf[EntryA] \in sent[1]
  /\ disk = FileJson(state[1])
  /\ state[1][KeyOf[EntryA]] = JInt(Day)

====
